---- MODULE Spec2Model ----
(***************************************************************************)
(* Model of different_sales_function.py: the four sales response           *)
(* functions, agent_objective, company_profit, and the Tk handler          *)
(* update_plots with its validation, readouts and plots.                   *)
(*                                                                         *)
(* Python floats and np.float64 are IEEE-754 binary64.  TLC's integers are *)
(* 32 bits wide, so a binary64 value is kept as sign, 53-bit significand   *)
(* (a little-endian sequence of 15-bit limbs) and exponent, and every      *)
(* arithmetic operation rounds to nearest, ties to even, as the hardware   *)
(* does.  np.exp and np.log are modelled as correctly rounded.             *)
(* Subnormals, infinities and NaN are outside the inputs drawn here.       *)
(***************************************************************************)
EXTENDS Integers, Sequences, FiniteSets, TLC

----------------------------------------------------------------------------
(* Natural numbers of arbitrary size: <<>> is 0, a[1] the lowest limb.     *)

RECURSIVE Pow2(_)
Pow2(n) == IF n = 0 THEN 1 ELSE 2 * Pow2(n - 1)

RECURSIVE IntBitLen(_)
IntBitLen(n) == IF n = 0 THEN 0 ELSE 1 + IntBitLen(n \div 2)

Base == 2^15
LimbBits == IntBitLen(Base) - 1

Limb(a, i) == IF i <= Len(a) THEN a[i] ELSE 0

RECURSIVE BNorm(_)
BNorm(a) ==
    IF a = <<>> THEN <<>>
    ELSE IF a[Len(a)] = 0 THEN BNorm(SubSeq(a, 1, Len(a) - 1)) ELSE a

RECURSIVE BAddC(_, _, _, _)
BAddC(a, b, i, carry) ==
    IF i > Len(a) /\ i > Len(b)
    THEN (IF carry = 0 THEN <<>> ELSE <<carry>>)
    ELSE LET t == Limb(a, i) + Limb(b, i) + carry
         IN  <<t % Base>> \o BAddC(a, b, i + 1, t \div Base)

BAdd(a, b) == BAddC(a, b, 1, 0)

RECURSIVE BSubC(_, _, _, _)
BSubC(a, b, i, borrow) ==
    IF i > Len(a) THEN <<>>
    ELSE LET t == a[i] - Limb(b, i) - borrow
         IN  IF t < 0 THEN <<t + Base>> \o BSubC(a, b, i + 1, 1)
             ELSE <<t>> \o BSubC(a, b, i + 1, 0)

\* a - b for a >= b
BSub(a, b) == BNorm(BSubC(a, b, 1, 0))

RECURSIVE BCmpAt(_, _, _)
BCmpAt(a, b, i) ==
    IF i = 0 THEN 0
    ELSE IF a[i] < b[i] THEN -1
    ELSE IF a[i] > b[i] THEN 1
    ELSE BCmpAt(a, b, i - 1)

\* -1, 0, 1 as a < b, a = b, a > b (both normalised)
BCmp(a, b) ==
    IF Len(a) < Len(b) THEN -1
    ELSE IF Len(a) > Len(b) THEN 1
    ELSE BCmpAt(a, b, Len(a))

RECURSIVE BMulSmallC(_, _, _, _)
BMulSmallC(a, k, i, carry) ==
    IF i > Len(a)
    THEN (IF carry = 0 THEN <<>> ELSE <<carry>>)
    ELSE LET t == a[i] * k + carry
         IN  <<t % Base>> \o BMulSmallC(a, k, i + 1, t \div Base)

\* a * k for 0 <= k <= Base
BMulSmall(a, k) == IF k = 0 THEN <<>> ELSE BMulSmallC(a, k, 1, 0)

RECURSIVE BMulAt(_, _, _)
BMulAt(a, b, i) ==
    IF i > Len(b) THEN <<>>
    ELSE LET rest == BMulAt(a, b, i + 1)
         IN  IF rest = <<>> THEN BMulSmall(a, b[i])
             ELSE BAdd(BMulSmall(a, b[i]), <<0>> \o rest)

BMul(a, b) == IF a = <<>> \/ b = <<>> THEN <<>> ELSE BMulAt(a, b, 1)

RECURSIVE BDivSmallAt(_, _, _, _)
\* limbs i..1 of a divided by k with incoming remainder r: <<quotient limbs (low first), remainder>>
BDivSmallAt(a, k, i, r) ==
    IF i = 0 THEN [q |-> <<>>, r |-> r]
    ELSE LET t    == r * Base + a[i]
             rest == BDivSmallAt(a, k, i - 1, t % k)
         IN  [q |-> Append(rest.q, t \div k), r |-> rest.r]

\* quotient and remainder of a by k, 0 < k <= Base
BDivSmall(a, k) ==
    LET d == BDivSmallAt(a, k, Len(a), 0)
    IN  [q |-> BNorm(d.q), r |-> d.r]

RECURSIVE BFromInt(_)
BFromInt(n) == IF n = 0 THEN <<>> ELSE <<n % Base>> \o BFromInt(n \div Base)

RECURSIVE BToInt(_)
\* only for values below 2^31
BToInt(a) == IF a = <<>> THEN 0 ELSE a[1] + Base * BToInt(Tail(a))

BitLen(a) == IF a = <<>> THEN 0 ELSE LimbBits * (Len(a) - 1) + IntBitLen(a[Len(a)])

Zeros(n) == [i \in 1..n |-> 0]

\* a * 2^n
BShiftL(a, n) ==
    IF a = <<>> THEN <<>>
    ELSE Zeros(n \div LimbBits) \o BMulSmall(a, Pow2(n % LimbBits))

\* floor(a / 2^n)
BShiftR(a, n) ==
    IF n \div LimbBits >= Len(a) THEN <<>>
    ELSE BDivSmall(SubSeq(a, n \div LimbBits + 1, Len(a)), Pow2(n % LimbBits)).q

BIsOdd(a) == a # <<>> /\ a[1] % 2 = 1

RECURSIVE BDivStep(_, _, _, _)
\* n <= LimbBits more quotient bits of r / b (r < b): r doubles at each step
BDivStep(r, b, q, n) ==
    IF n = 0 THEN [q |-> q, r |-> r]
    ELSE LET r2 == BMulSmall(r, 2)
         IN  IF BCmp(r2, b) >= 0
             THEN BDivStep(BSub(r2, b), b, 2 * q + 1, n - 1)
             ELSE BDivStep(r2, b, 2 * q, n - 1)

RECURSIVE BDivLimbsAt(_, _, _)
\* the quotient limb d.q just computed, followed by k - 1 more from d.r
BDivLimbsFrom(d, b, k) ==
    IF d.r = <<>> THEN [q |-> Append(Zeros(k - 1), d.q), r |-> <<>>]
    ELSE LET rest == BDivLimbsAt(d.r, b, k - 1)
         IN  [q |-> Append(rest.q, d.q), r |-> rest.r]

\* k more quotient limbs of r / b (r < b), the highest first
BDivLimbsAt(r, b, k) ==
    IF k = 0 THEN [q |-> <<>>, r |-> r]
    ELSE BDivLimbsFrom(BDivStep(r, b, 0, LimbBits), b, k)

\* the quotient limbs d.q below the leading quotient digit
BDivScaledFrom(d, leading) ==
    [q |-> BNorm(Append(d.q, leading)), inexact |-> d.r # <<>>]

\* floor(a * Base^k / b) and whether the division left a remainder, for a < 2*b
BDivScaled(a, b, k) ==
    IF BCmp(a, b) >= 0 THEN BDivScaledFrom(BDivLimbsAt(BSub(a, b), b, k), 1)
    ELSE BDivScaledFrom(BDivLimbsAt(a, b, k), 0)

RECURSIVE BDivModAt(_, _, _, _)
\* general division by shift and subtract, from bit i of the quotient down
BDivModAt(a, b, i, q) ==
    IF i < 0 THEN [q |-> q, r |-> a]
    ELSE LET bs == BShiftL(b, i)
         IN  IF BCmp(a, bs) >= 0
             THEN BDivModAt(BSub(a, bs), b, i - 1, BAdd(q, BShiftL(<<1>>, i)))
             ELSE BDivModAt(a, b, i - 1, q)

\* quotient and remainder of a by b, b > 0
BDivMod(a, b) ==
    IF BCmp(a, b) < 0 THEN [q |-> <<>>, r |-> a]
    ELSE BDivModAt(a, b, BitLen(a) - BitLen(b), <<>>)

\* q = floor(a / 2^n) moved to the nearest integer to a / 2^n, ties to even:
\* up exactly when twice the remainder, plus one for an odd q, exceeds 2^n
BNearestEvenFrom(a, n, q) ==
    IF BCmp(BMulSmallC(BSub(a, BShiftL(q, n)), 2, 1, IF BIsOdd(q) THEN 1 ELSE 0),
            BShiftL(<<1>>, n)) > 0
    THEN BAdd(q, <<1>>)
    ELSE q

\* a / 2^n rounded to the nearest integer, ties to the even one
BShiftRNearestEven(a, n) == IF n = 0 THEN a ELSE BNearestEvenFrom(a, n, BShiftR(a, n))

----------------------------------------------------------------------------
(* binary64: the value (-1)^sg * m * 2^e with m of exactly MantBits bits,  *)
(* or m = <<>> for zero.                                                   *)

MantBits == 53

FZero(sg) == [sg |-> sg, m |-> <<>>, e |-> 0]

IsZero(x) == x.m = <<>>

\* (-1)^sg * q * 2^e for q of MantBits bits, or of one more after a carry
Pack(sg, q, e) ==
    IF BitLen(q) > MantBits THEN [sg |-> sg, m |-> BShiftR(q, 1), e |-> e + 1]
    ELSE [sg |-> sg, m |-> q, e |-> e]

\* the binary64 nearest to (-1)^sg * M * 2^E, ties to even
RoundPack(sg, M, E) ==
    LET L == BitLen(M)
    IN  IF M = <<>> THEN FZero(sg)
        ELSE IF L <= MantBits
        THEN [sg |-> sg, m |-> BShiftL(M, MantBits - L), e |-> E - (MantBits - L)]
        ELSE Pack(sg, BShiftRNearestEven(M, L - MantBits), E + (L - MantBits))

FromInt(n) == RoundPack(IF n < 0 THEN 1 ELSE 0, BFromInt(IF n < 0 THEN -n ELSE n), 0)

FNeg(x) == [x EXCEPT !.sg = 1 - x.sg]

FMul(x, y) ==
    IF IsZero(x) \/ IsZero(y) THEN FZero((x.sg + y.sg) % 2)
    ELSE RoundPack((x.sg + y.sg) % 2, BMul(x.m, y.m), x.e + y.e)

\* quotient limbs computed by a division: more than MantBits + 2 bits
QuotLimbs == MantBits \div LimbBits + 1

\* the quotient d of the mantissas with a sticky bit appended, rounded
FDivFrom(sg, d, e) ==
    RoundPack(sg, BMulSmallC(d.q, 2, 1, IF d.inexact THEN 1 ELSE 0), e)

\* x / y for y # 0
FDiv(x, y) ==
    IF IsZero(y) \/ IsZero(x) THEN FZero((x.sg + y.sg) % 2)
    ELSE FDivFrom((x.sg + y.sg) % 2, BDivScaled(x.m, y.m, QuotLimbs),
                  x.e - y.e - QuotLimbs * LimbBits - 1)

\* -1, 0, 1 as |x| < |y|, |x| = |y|, |x| > |y|
FCmpAbs(x, y) ==
    IF IsZero(x) THEN (IF IsZero(y) THEN 0 ELSE -1)
    ELSE IF IsZero(y) THEN 1
    ELSE IF x.e < y.e THEN -1
    ELSE IF x.e > y.e THEN 1
    ELSE BCmp(x.m, y.m)

\* -1, 0, 1 as x < y, x == y, x > y (0.0 == -0.0)
FCmp(x, y) ==
    IF IsZero(x) /\ IsZero(y) THEN 0
    ELSE IF x.sg # y.sg THEN (IF x.sg = 1 THEN -1 ELSE 1)
    ELSE IF x.sg = 0 THEN FCmpAbs(x, y) ELSE FCmpAbs(y, x)

FLt(x, y) == FCmp(x, y) < 0
FLe(x, y) == FCmp(x, y) <= 0
FEq(x, y) == FCmp(x, y) = 0

\* (-1)^sa * A * 2^e + (-1)^sb * B * 2^e for c the comparison of A with B
FAddMantissas(sa, sb, A, B, e, c) ==
    IF sa # sb /\ c = 0 THEN FZero(0)
    ELSE RoundPack(IF sa = sb \/ c > 0 THEN sa ELSE sb,
                   IF sa = sb THEN BAdd(A, B)
                   ELSE IF c > 0 THEN BSub(A, B) ELSE BSub(B, A),
                   e)

\* hi.e >= lo.e, neither is zero.  An operand more than MantBits + 3 binary
\* places below the other only decides the rounding direction.
FAddAligned(hi, lo) ==
    LET far == hi.e - lo.e > MantBits + 3
        d   == IF far THEN MantBits + 7 ELSE hi.e - lo.e
    IN  FAddMantissas(hi.sg, lo.sg, BShiftL(hi.m, d), IF far THEN <<1>> ELSE lo.m,
                      hi.e - d, BCmp(BShiftL(hi.m, d), IF far THEN <<1>> ELSE lo.m))

FAdd(x, y) ==
    IF IsZero(x) /\ IsZero(y) THEN FZero(IF x.sg = 1 /\ y.sg = 1 THEN 1 ELSE 0)
    ELSE IF IsZero(x) THEN y
    ELSE IF IsZero(y) THEN x
    ELSE FAddAligned(IF x.e >= y.e THEN x ELSE y, IF x.e >= y.e THEN y ELSE x)

FSub(x, y) == FAdd(x, FNeg(y))

\* the binary64 a decimal literal n/d denotes (d a power of ten)
Dec(n, d) == FDiv(FromInt(n), FromInt(d))

\* np.rint: to the nearest integer, ties to even
Rint(x) ==
    IF IsZero(x) \/ x.e >= 0 THEN x
    ELSE RoundPack(x.sg, BShiftRNearestEven(x.m, -x.e), 0)

\* the digits of f"{x:.2f}": the sign and |x| in hundredths, correctly rounded
Format2(x) ==
    LET N == BMulSmall(x.m, 100)
    IN  [neg   |-> x.sg = 1,
         cents |-> BToInt(IF x.e >= 0 THEN BShiftL(N, x.e)
                          ELSE BShiftRNearestEven(N, -x.e))]

----------------------------------------------------------------------------
(* np.exp and np.log, computed in fixed point with FracBits fractional     *)
(* bits and then rounded once to binary64.                                 *)

FracBits == 6 * LimbBits

One == BShiftL(<<1>>, FracBits)

\* a * b in fixed point
FixMulFrom(p) ==
    IF Len(p) <= FracBits \div LimbBits THEN <<>>
    ELSE SubSeq(p, FracBits \div LimbBits + 1, Len(p))

FixMul(a, b) == FixMulFrom(BMul(a, b))

RECURSIVE AtanhSeries(_, _, _, _)
\* sum + p/n + p*z2/(n+2) + p*z2^2/(n+4) + ... in fixed point, until a term is 0
AtanhSeries(p, z2, n, sum) ==
    LET next == BAdd(sum, BDivSmall(p, n).q)
    IN  IF next = sum THEN sum ELSE AtanhSeries(FixMul(p, z2), z2, n + 2, next)

\* floor(2^FracBits * ln 2), low limb first
Ln2F == <<3790, 24143, 30618, 31289, 1533, 22713>>

\* |x| in fixed point
FixAbs(x) ==
    IF x.e + FracBits >= 0 THEN BShiftL(x.m, x.e + FracBits)
    ELSE BShiftR(x.m, -(x.e + FracBits))

RECURSIVE ExpSeries(_, _, _, _)
\* sum + term + term*r/n + term*r^2/(n(n+1)) + ... in fixed point, until a term is 0
ExpSeries(r, term, n, sum) ==
    LET next == BAdd(sum, term)
    IN  IF next = sum THEN sum
        ELSE ExpSeries(r, BDivSmall(FixMul(term, r), n).q, n + 1, next)

\* exp(x) = 2^k exp(r) for |x| = d.q ln 2 + d.r: k = d.q and r = d.r for x > 0,
\* k = -d.q - 1 and r = ln 2 - d.r for x < 0 unless d.r = 0
ExpFrom(x, ln2, d) ==
    LET up == x.sg = 0 \/ d.r = <<>>
        k  == IF up THEN (IF x.sg = 0 THEN BToInt(d.q) ELSE -BToInt(d.q))
              ELSE -(BToInt(d.q) + 1)
    IN  IF k < -1075 THEN FZero(0)
        ELSE RoundPack(0, ExpSeries(IF up THEN d.r ELSE BSub(ln2, d.r), One, 1, <<>>),
                       k - FracBits)

\* np.exp(x).  Below 2^-1075 the result underflows to 0.0.
FExp(x) ==
    IF IsZero(x) THEN RoundPack(0, One, -FracBits)
    ELSE IF x.sg = 1 /\ x.e + MantBits > 11 THEN FZero(0)
    ELSE ExpFrom(x, Ln2F, BDivMod(FixAbs(x), Ln2F))

\* n ln 2 + 2 atanh(z), rounded
LogFrom(n, z) ==
    RoundPack(0, BAdd(BMulSmall(Ln2F, n), BMulSmall(AtanhSeries(z, FixMul(z, z), 1, <<>>), 2)),
              -FracBits)

\* np.log(y) for y >= 1: y = t 2^n with 1 <= t < 2,
\* ln y = n ln 2 + 2 atanh((t - 1)/(t + 1))
FLog(y) ==
    LogFrom(y.e + MantBits - 1,
            BDivScaled(BSub(y.m, BShiftL(<<1>>, MantBits - 1)),
                       BAdd(y.m, BShiftL(<<1>>, MantBits - 1)),
                       FracBits \div LimbBits).q)

----------------------------------------------------------------------------
(* The module's functions (lines 8-32).  A Python function is an object    *)
(* that is called through whatever name or parameter is bound to it; the   *)
(* model denotes a function object by the name of its def, and call        *)
(* applies one to its arguments.                                           *)

F1 == FromInt(1)
F100 == FromInt(100)

RECURSIVE call(_, _)

\* sigmoid with the "1 +" of the denominator left out
sigmoid_without_one(x) == FDiv(F1, FExp(FNeg(x)))

\* return 1 / (1 + np.exp(-x))
sigmoid(x) == FDiv(F1, FAdd(F1, FExp(FNeg(x))))

\* return sigmoid( e) * c
linear_sales_function(e, c) == FMul(call("sigmoid", <<e>>), c)

\* return c * sigmoid(e**2)
quadratic_sales_function(e, c) == FMul(c, call("sigmoid", <<FMul(e, e)>>))

\* return c * sigmoid(np.log(e + 1))
logarithmic_sales_function(e, c) == FMul(c, call("sigmoid", <<FLog(FAdd(e, F1))>>))

\* return c * sigmoid(np.exp(0.1 * e))
exponential_sales_function(e, c) ==
    FMul(c, call("sigmoid", <<FExp(FMul(Dec(1, 10), e))>>))

\* agent_objective with the leading minus of agent_profit left out
agent_objective_positive(params, sales_function) ==
    LET c            == params[1]
        e            == params[2]
        s            == call(sales_function, <<e, c>>)
        agent_profit == FSub(FMul(c, s), FMul(F1, e))
        total_sales  == FMul(s, FSub(F1, call(sales_function, <<e, c>>)))
        agent_profit_percentage ==
            IF ~FEq(total_sales, FZero(0))
            THEN FMul(FDiv(agent_profit, total_sales), F100)
            ELSE FZero(0)
    IN  <<agent_profit_percentage, agent_profit>>

\* def agent_objective(params, sales_function)
agent_objective(params, sales_function) ==
    LET c            == params[1]
        e            == params[2]
        s            == call(sales_function, <<e, c>>)
        agent_profit == FNeg(FSub(FMul(c, s), FMul(F1, e)))
        total_sales  == FMul(s, FSub(F1, call(sales_function, <<e, c>>)))
        agent_profit_percentage ==
            IF ~FEq(total_sales, FZero(0))
            THEN FMul(FDiv(agent_profit, total_sales), F100)
            ELSE FZero(0)
    IN  <<agent_profit_percentage, agent_profit>>

\* round(x, 2) of an np.float64: multiply by 100, rint, divide by 100
Round2(x) == FDiv(Rint(FMul(x, F100)), F100)

\* company_profit with the factor (1 - s) left out
company_profit_without_complement(e, c, sales_function) ==
    Round2(FMul(call(sales_function, <<e, c>>), F100))

\* def company_profit(e, c, sales_function)
company_profit(e, c, sales_function) ==
    Round2(FMul(FMul(call(sales_function, <<e, c>>),
                     FSub(F1, call(sales_function, <<e, c>>))),
                F100))

\* the call function(*args) of a function object of the module
call(function, args) ==
    CASE function = "sigmoid" -> sigmoid(args[1])
      [] function = "linear_sales_function" -> linear_sales_function(args[1], args[2])
      [] function = "quadratic_sales_function" -> quadratic_sales_function(args[1], args[2])
      [] function = "logarithmic_sales_function" ->
             logarithmic_sales_function(args[1], args[2])
      [] function = "exponential_sales_function" ->
             exponential_sales_function(args[1], args[2])
      [] function = "agent_objective" -> agent_objective(args[1], args[2])
      [] function = "company_profit" -> company_profit(args[1], args[2], args[3])

\* the four function objects update_plots chooses among
SalesFunctions == {"linear_sales_function", "quadratic_sales_function",
                   "logarithmic_sales_function", "exponential_sales_function"}

----------------------------------------------------------------------------
(* create_gui (lines 43-172): the Tk variables, the three axes and the     *)
(* handler of the button.  An entry holds the decimal text the user typed, *)
(* written <<n, d>> for n/d with d a power of ten; DoubleVar.get() converts *)
(* it to a double.                                                         *)

VARIABLES
    commission_var,         \* tk.DoubleVar bound to the commission entry
    effort_var,             \* tk.DoubleVar bound to the effort entry
    selected_function_var,  \* tk.StringVar bound to the combobox
    agent_profit_var,       \* text of the "Agent Profit:" readout
    company_profit_var,     \* text of the "Company Profit:" readout
    ax1, ax2, ax3,          \* what each 3-D axes holds; <<>> when empty
    grid_writes,            \* stores into each grid cell during the last grid evaluation
    shown,                  \* messagebox.showerror calls of the last update_plots run
    event,                  \* the callback the event loop ran last
    pc,                     \* "create_gui" until root.mainloop() is entered
    computed,               \* what the conversions, the calls and the grid loop evaluate to
    probe                   \* a direct call of a function of the module

vars == <<commission_var, effort_var, selected_function_var, agent_profit_var,
          company_profit_var, ax1, ax2, ax3, grid_writes, shown, event, pc,
          computed, probe>>

outputs == <<agent_profit_var, company_profit_var, ax1, ax2, ax3, grid_writes>>

\* points per axis of the plotted grid: np.linspace(..., 100) in the source
GridPoints == 3

\* what the user can type into the two entries
CommissionEntries == {<<5, 100>>, <<5, 10>>, <<9, 10>>, <<1, 1>>}
EffortEntries == {<<-1, 1>>, <<0, 1>>, <<5, 1>>, <<10, 1>>, <<15, 1>>}
\* the combobox is editable: its four values, or typed text
FunctionEntries == {"Linear", "Quadratic", "Logarithmic", "Exponential", "Cubic"}

\* the bounds written in validate_input: 0.1, 0.9, 0, 10
Literals == {<<1, 10>>, <<9, 10>>, <<0, 1>>, <<10, 1>>}

RECURSIVE linspace_upto(_, _, _, _)
\* the first k samples: arange(0, num) * step + start, the last one replaced by stop
linspace_upto(start, stop, num, k) ==
    IF k = 0 THEN <<>>
    ELSE Append(linspace_upto(start, stop, num, k - 1),
                IF k = num THEN stop
                ELSE FAdd(FMul(FromInt(k - 1), FDiv(FSub(stop, start), FromInt(num - 1))),
                          start))

\* np.linspace(start, stop, num)
linspace(start, stop, num) == linspace_upto(start, stop, num, num)

\* np.zeros((rows, cols))
zeros(rows, cols) == [j \in 1..rows |-> [i \in 1..cols |-> FZero(0)]]

\* the loop body storing into values[i, j]
grid_cell_transposed(i, j) == <<i, j>>

\* the cell the loop body stores into for loop indices (i, j): values[j, i]
grid_cell(i, j) == <<j, i>>

\* every pair of a commission of xs and an effort of ys
Pairs(xs, ys) == {<<xs[i], ys[j]>> : i \in 1..Len(xs), j \in 1..Len(ys)}

\* the arguments of the two np.linspace calls of lines 116-117
CommissionSpan == <<<<1, 10>>, <<9, 10>>>>
EffortSpan == <<<<0, 1>>, <<10, 1>>>>

\* lo <= text <= hi for decimal texts
within(text, lo, hi) ==
    /\ lo[1] * text[2] <= text[1] * lo[2]
    /\ text[1] * hi[2] <= hi[1] * text[2]

\* the points update_plots evaluates: the typed entries that pass
\* validate_input, and the grid points
EvaluatedPoints ==
    {<<Dec(c[1], c[2]), Dec(e[1], e[2])>> :
        c \in {t \in CommissionEntries : within(t, CommissionSpan[1], CommissionSpan[2])},
        e \in {t \in EffortEntries : within(t, EffortSpan[1], EffortSpan[2])}}
    \cup Pairs(linspace(Dec(1, 10), Dec(9, 10), GridPoints),
               linspace(Dec(0, 1), Dec(10, 1), GridPoints))

\* the calls update_plots makes at the given points
CallsAt(points) ==
    {<<"agent_objective", <<p, f>> >> : f \in SalesFunctions, p \in points}
    \cup {<<"company_profit", <<p[2], p[1], f>> >> : f \in SalesFunctions, p \in points}

Calls == CallsAt(EvaluatedPoints)

\* The conversions, the ranges and the calls are pure: each is evaluated
\* once, in the initial state, and looked up where the handler runs it.
Evaluations ==
    [float    |-> [t \in CommissionEntries \cup EffortEntries \cup Literals |->
                      Dec(t[1], t[2])],
     linspace |-> [k \in {CommissionSpan, EffortSpan} |->
                      linspace(Dec(k[1][1], k[1][2]), Dec(k[2][1], k[2][2]), GridPoints)],
     call     |-> [k \in Calls |-> call(k[1], k[2])]]

\* the double a decimal text denotes
float(text) == computed.float[text]

\* the value of function(*args)
result(function, args) == computed.call[<<function, args>>]

\* np.linspace(start, stop, GridPoints) for the literals of a span
np_linspace(span) == computed.linspace[span]

RECURSIVE grid_loop(_, _, _, _)
\* the locals after the first k runs of the loop body:
\* for i in range(len(commission_range)): for j in range(len(effort_range))
grid_loop(commission_range, effort_range, sales_function, k) ==
    IF k = 0
    THEN [commission_range      |-> commission_range,
          effort_range          |-> effort_range,
          agent_profit_values   |-> zeros(Len(effort_range), Len(commission_range)),
          company_profit_values |-> zeros(Len(effort_range), Len(commission_range)),
          writes |-> [j \in 1..Len(effort_range) |->
                         [i \in 1..Len(commission_range) |-> 0]]]
    ELSE LET i  == (k - 1) \div Len(effort_range) + 1
             j  == ((k - 1) % Len(effort_range)) + 1
             at == grid_cell(i, j)
         IN  [grid_loop(commission_range, effort_range, sales_function, k - 1) EXCEPT
                  !.agent_profit_values[at[1]][at[2]] =
                      result("agent_objective",
                             <<<<commission_range[i], effort_range[j]>>, sales_function>>)[1],
                  !.company_profit_values[at[1]][at[2]] =
                      result("company_profit",
                             <<effort_range[j], commission_range[i], sales_function>>),
                  !.writes[at[1]][at[2]] = @ + 1]

\* lines 116-125: the two ranges and the grids the loop leaves
profit_grids(sales_function) ==
    grid_loop(np_linspace(CommissionSpan), np_linspace(EffortSpan), sales_function,
              Len(np_linspace(CommissionSpan)) * Len(np_linspace(EffortSpan)))

\* the text f"{x:.2f}" followed by suffix
text2f(x, suffix) ==
    [neg |-> Format2(x).neg, digits |-> Format2(x).cents, places |-> 2, suffix |-> suffix]

\* validate_input accepting a commission up to 1.0
validate_input_upto_one(commission, effort) ==
    IF ~(FLe(float(<<1, 10>>), commission) /\ FLe(commission, float(<<1, 1>>)))
    THEN [ok |-> FALSE, errors |-> <<"Commission value must be between 0.1 and 0.9.">>]
    ELSE IF ~(FLe(float(<<0, 1>>), effort) /\ FLe(effort, float(<<10, 1>>)))
    THEN [ok |-> FALSE, errors |-> <<"Effort value must be between 0 and 10.">>]
    ELSE [ok |-> TRUE, errors |-> <<>>]

\* validate_input with its two checks in the other order
validate_input_effort_first(commission, effort) ==
    IF ~(FLe(float(<<0, 1>>), effort) /\ FLe(effort, float(<<10, 1>>)))
    THEN [ok |-> FALSE, errors |-> <<"Effort value must be between 0 and 10.">>]
    ELSE IF ~(FLe(float(<<1, 10>>), commission) /\ FLe(commission, float(<<9, 10>>)))
    THEN [ok |-> FALSE, errors |-> <<"Commission value must be between 0.1 and 0.9.">>]
    ELSE [ok |-> TRUE, errors |-> <<>>]

\* validate_input(): the dialogs it shows and what it returns
validate_input(commission, effort) ==
    IF ~(FLe(float(<<1, 10>>), commission) /\ FLe(commission, float(<<9, 10>>)))
    THEN [ok |-> FALSE, errors |-> <<"Commission value must be between 0.1 and 0.9.">>]
    ELSE IF ~(FLe(float(<<0, 1>>), effort) /\ FLe(effort, float(<<10, 1>>)))
    THEN [ok |-> FALSE, errors |-> <<"Effort value must be between 0 and 10.">>]
    ELSE [ok |-> TRUE, errors |-> <<>>]

\* the if/elif chain ending in a default instead of the error
select_sales_function_default(selected_function) ==
    IF selected_function = "Quadratic"
    THEN [ok |-> TRUE, sales_function |-> "quadratic_sales_function", errors |-> <<>>]
    ELSE IF selected_function = "Logarithmic"
    THEN [ok |-> TRUE, sales_function |-> "logarithmic_sales_function", errors |-> <<>>]
    ELSE IF selected_function = "Exponential"
    THEN [ok |-> TRUE, sales_function |-> "exponential_sales_function", errors |-> <<>>]
    ELSE [ok |-> TRUE, sales_function |-> "linear_sales_function", errors |-> <<>>]

\* the if/elif chain of lines 98-108 on the combobox text
select_sales_function(selected_function) ==
    IF selected_function = "Linear"
    THEN [ok |-> TRUE, sales_function |-> "linear_sales_function", errors |-> <<>>]
    ELSE IF selected_function = "Quadratic"
    THEN [ok |-> TRUE, sales_function |-> "quadratic_sales_function", errors |-> <<>>]
    ELSE IF selected_function = "Logarithmic"
    THEN [ok |-> TRUE, sales_function |-> "logarithmic_sales_function", errors |-> <<>>]
    ELSE IF selected_function = "Exponential"
    THEN [ok |-> TRUE, sales_function |-> "exponential_sales_function", errors |-> <<>>]
    ELSE [ok |-> FALSE, sales_function |-> "",
          errors |-> <<"Invalid sales function selected.">>]

\* np.meshgrid(xs, ys)
meshgrid(xs, ys) ==
    <<[j \in 1..Len(ys) |-> [i \in 1..Len(xs) |-> xs[i]]],
      [j \in 1..Len(ys) |-> [i \in 1..Len(xs) |-> ys[j]]]>>

\* plot_profit_surface on a cleared axes: the one surface it then holds
plot_profit_surface(commission_range, effort_range, values, title, cmap) ==
    <<[X |-> meshgrid(commission_range, effort_range)[1],
       Y |-> meshgrid(commission_range, effort_range)[2],
       Z |-> values, title |-> title, cmap |-> cmap]>>

\* ax.scatter([x], [y], [z], c=c, label=label)
scatter(x, y, z, c, label) == [x |-> x, y |-> y, z |-> z, c |-> c, label |-> label]

\* lines 110-144 without the ax3.clear() of line 136
draw_keeping_scatter(commission, effort, sales_function) ==
    LET agent_profit_percentage ==
            result("agent_objective", <<<<commission, effort>>, sales_function>>)[1]
        company_profit_percentage ==
            result("company_profit", <<effort, commission, sales_function>>)
        grids == profit_grids(sales_function)
    IN  /\ agent_profit_var' = text2f(agent_profit_percentage, "")
        /\ company_profit_var' = text2f(company_profit_percentage, "%")
        /\ ax1' = plot_profit_surface(grids.commission_range, grids.effort_range,
                                       grids.agent_profit_values,
                                       "Agent Profit", "viridis")
        /\ ax2' = plot_profit_surface(grids.commission_range, grids.effort_range,
                                       grids.company_profit_values,
                                       "Company Profit Percentage", "plasma")
        /\ ax3' = ax3 \o <<scatter(commission, effort, agent_profit_percentage,
                                   "blue", "Agent Profit"),
                           scatter(commission, effort, company_profit_percentage,
                                   "red", "Company Profit %")>>
        /\ grid_writes' = grids.writes

\* lines 110-144: the readouts and the three axes for accepted inputs
draw(commission, effort, sales_function) ==
    LET agent_profit_percentage ==
            result("agent_objective", <<<<commission, effort>>, sales_function>>)[1]
        company_profit_percentage ==
            result("company_profit", <<effort, commission, sales_function>>)
        grids == profit_grids(sales_function)
    IN  /\ agent_profit_var' = text2f(agent_profit_percentage, "")
        /\ company_profit_var' = text2f(company_profit_percentage, "%")
        /\ ax1' = plot_profit_surface(grids.commission_range, grids.effort_range,
                                       grids.agent_profit_values,
                                       "Agent Profit", "viridis")
        /\ ax2' = plot_profit_surface(grids.commission_range, grids.effort_range,
                                       grids.company_profit_values,
                                       "Company Profit Percentage", "plasma")
        /\ ax3' = <<scatter(commission, effort, agent_profit_percentage,
                            "blue", "Agent Profit"),
                    scatter(commission, effort, company_profit_percentage,
                            "red", "Company Profit %")>>
        /\ grid_writes' = grids.writes

\* update_plots clearing the three axes before it validates
update_plots_clearing_first ==
    LET v   == validate_input(float(commission_var), float(effort_var))
        sel == select_sales_function(selected_function_var)
    IN  IF ~v.ok \/ ~sel.ok
        THEN /\ shown' = (IF ~v.ok THEN v.errors ELSE sel.errors)
             /\ ax1' = <<>> /\ ax2' = <<>> /\ ax3' = <<>>
             /\ UNCHANGED <<agent_profit_var, company_profit_var, grid_writes>>
        ELSE shown' = <<>>
             /\ draw(float(commission_var), float(effort_var), sel.sales_function)

\* def update_plots()
update_plots ==
    LET v   == validate_input(float(commission_var), float(effort_var))
        sel == select_sales_function(selected_function_var)
    IN  IF ~v.ok THEN shown' = v.errors /\ UNCHANGED outputs
        ELSE IF ~sel.ok THEN shown' = sel.errors /\ UNCHANGED outputs
        ELSE shown' = <<>>
             /\ draw(float(commission_var), float(effort_var), sel.sales_function)

NoProbe == [function |-> "", args |-> <<>>, result |-> <<>>]

\* create_gui() down to line 165: the variables with their initial values
Init ==
    /\ commission_var = <<5, 10>>
    /\ effort_var = <<5, 1>>
    /\ agent_profit_var = [neg |-> FALSE, digits |-> 0, places |-> 1, suffix |-> ""]
    /\ company_profit_var = [neg |-> FALSE, digits |-> 0, places |-> 2, suffix |-> "%"]
    /\ selected_function_var = "Linear"
    /\ ax1 = <<>> /\ ax2 = <<>> /\ ax3 = <<>>
    /\ grid_writes = <<>>
    /\ shown = <<>>
    /\ event = "none"
    /\ pc = "create_gui"
    /\ computed = Evaluations
    /\ probe = NoProbe

\* create_gui entering root.mainloop() without the update_plots() of line 170
InitialPlots_skipped ==
    /\ pc = "create_gui"
    /\ pc' = "mainloop"
    /\ event' = "initial"
    /\ UNCHANGED <<commission_var, effort_var, selected_function_var, outputs, shown,
                   computed, probe>>

\* lines 167-172: the initial update_plots(), then root.mainloop()
InitialPlots ==
    /\ pc = "create_gui"
    /\ update_plots
    /\ pc' = "mainloop"
    /\ event' = "initial"
    /\ UNCHANGED <<commission_var, effort_var, selected_function_var, computed, probe>>

\* the user edits the commission entry
EnterCommission ==
    /\ pc = "mainloop"
    /\ \E c \in CommissionEntries : commission_var' = c
    /\ event' = "edit"
    /\ UNCHANGED <<effort_var, selected_function_var, outputs, shown, pc, computed, probe>>

\* the user edits the effort entry
EnterEffort ==
    /\ pc = "mainloop"
    /\ \E e \in EffortEntries : effort_var' = e
    /\ event' = "edit"
    /\ UNCHANGED <<commission_var, selected_function_var, outputs, shown, pc,
                   computed, probe>>

\* the user picks or types a sales function
SelectFunction ==
    /\ pc = "mainloop"
    /\ \E f \in FunctionEntries : selected_function_var' = f
    /\ event' = "edit"
    /\ UNCHANGED <<commission_var, effort_var, outputs, shown, pc, computed, probe>>

\* the button "Calculate & Update Plots": command=update_plots
ClickCalculate ==
    /\ pc = "mainloop"
    /\ update_plots
    /\ event' = "update_plots"
    /\ UNCHANGED <<commission_var, effort_var, selected_function_var, pc,
                   computed, probe>>

Next ==
    \/ InitialPlots
    \/ EnterCommission
    \/ EnterEffort
    \/ SelectFunction
    \/ ClickCalculate

Spec == Init /\ [][Next]_vars

----------------------------------------------------------------------------
(* The functions of lines 8-32 called directly, as a test of the module    *)
(* would call them.                                                        *)

ProbeCommissions == {<<1, 10>>, <<1, 2>>, <<9, 10>>, <<1, 1>>}
ProbeEfforts == {<<0, 1>>, <<5, 1>>, <<7, 1>>, <<10, 1>>}

ProbePoints ==
    {<<Dec(c[1], c[2]), Dec(e[1], e[2])>> : c \in ProbeCommissions, e \in ProbeEfforts}

ProbeCalls ==
    {<<f, <<p[2], p[1]>> >> : f \in SalesFunctions, p \in ProbePoints}
    \cup CallsAt(ProbePoints)

\* one call function(*args); probe keeps the call and what it returned
Probe ==
    /\ probe = NoProbe
    /\ \E k \in ProbeCalls :
           probe' = [function |-> k[1], args |-> k[2], result |-> call(k[1], k[2])]
    /\ UNCHANGED <<commission_var, effort_var, selected_function_var, outputs, shown,
                   event, pc, computed>>

PureNext == Probe

PureSpec == Init /\ [][PureNext]_vars

----------------------------------------------------------------------------
(* Properties of update_plots.                                             *)

\* update_plots was the last callback to run
Triggered == event \in {"initial", "update_plots"}

CommissionInRange == within(commission_var, <<1, 10>>, <<9, 10>>)
EffortInRange == within(effort_var, <<0, 1>>, <<10, 1>>)
Recognised ==
    selected_function_var \in {"Linear", "Quadratic", "Logarithmic", "Exponential"}

\* the function object a combobox text stands for
SalesFunctionNamed(text) ==
    CASE text = "Linear" -> "linear_sales_function"
      [] text = "Quadratic" -> "quadratic_sales_function"
      [] text = "Logarithmic" -> "logarithmic_sales_function"
      [] text = "Exponential" -> "exponential_sales_function"

\* the agent profit percentage and the company profit percentage at a point
AgentPercentageAt(c, e, f) == result("agent_objective", <<<<c, e>>, f>>)[1]
CompanyPercentageAt(c, e, f) == result("company_profit", <<e, c, f>>)

\* the surface an axes shows for a grid of values over the two ranges
SurfaceOf(values, title, cmap) ==
    <<[X |-> [j \in 1..GridPoints |-> np_linspace(CommissionSpan)],
       Y |-> [j \in 1..GridPoints |->
                 [i \in 1..GridPoints |-> np_linspace(EffortSpan)[j]]],
       Z |-> values, title |-> title, cmap |-> cmap]>>

\* C1: whenever update_plots runs with the commission outside [0.1, 0.9] or
\* the effort outside [0, 10] (for instance 0.05 with 5, or 0.5 with 15), it
\* shows an error dialog and leaves both readouts and the three plots as
\* they were before the trigger.
C1_OutOfRangeRejected ==
    [][(event' \in {"initial", "update_plots"}
         /\ ~(CommissionInRange /\ EffortInRange))
       => (shown' # <<>> /\ UNCHANGED outputs)]_vars

\* a rejected commission of 0.05 with effort 5: the readout of the defaults stays
C1_Witness ==
    /\ event = "update_plots"
    /\ commission_var = <<5, 100>> /\ effort_var = <<5, 1>>
    /\ shown = <<"Commission value must be between 0.1 and 0.9.">>
    /\ agent_profit_var = [neg |-> FALSE, digits |-> 190075, places |-> 2, suffix |-> ""]
    /\ ax1 # <<>>

\* C2: after update_plots ran with the commission in [0.1, 0.9], the effort
\* in [0, 10] and one of the four selections, no dialog was shown, the two
\* readouts are the agent and company profit percentages of exactly the
\* current inputs, and the three axes hold one freshly computed surface,
\* one more, and the two scatter points of the current inputs: nothing of
\* an earlier trigger remains.
C2_ValidUpdateShowsCurrentInputs ==
    (Triggered /\ CommissionInRange /\ EffortInRange /\ Recognised) =>
        LET c == float(commission_var)
            e == float(effort_var)
            f == SalesFunctionNamed(selected_function_var)
        IN  /\ shown = <<>>
            /\ agent_profit_var = text2f(AgentPercentageAt(c, e, f), "")
            /\ company_profit_var = text2f(CompanyPercentageAt(c, e, f), "%")
            /\ ax1 = SurfaceOf([j \in 1..GridPoints |-> [i \in 1..GridPoints |->
                          AgentPercentageAt(np_linspace(CommissionSpan)[i],
                                            np_linspace(EffortSpan)[j], f)]],
                               "Agent Profit", "viridis")
            /\ ax2 = SurfaceOf([j \in 1..GridPoints |-> [i \in 1..GridPoints |->
                          CompanyPercentageAt(np_linspace(CommissionSpan)[i],
                                              np_linspace(EffortSpan)[j], f)]],
                               "Company Profit Percentage", "plasma")
            /\ ax3 = <<[x |-> c, y |-> e, z |-> AgentPercentageAt(c, e, f),
                        c |-> "blue", label |-> "Agent Profit"],
                       [x |-> c, y |-> e, z |-> CompanyPercentageAt(c, e, f),
                        c |-> "red", label |-> "Company Profit %"]>>

\* commission 0.9, effort 0, Exponential after other inputs: "-263.12" and "22.51%"
C2_Witness ==
    /\ event = "update_plots"
    /\ commission_var = <<9, 10>> /\ effort_var = <<0, 1>>
    /\ selected_function_var = "Exponential"
    /\ shown = <<>>
    /\ agent_profit_var = [neg |-> TRUE, digits |-> 26312, places |-> 2, suffix |-> ""]
    /\ company_profit_var = [neg |-> FALSE, digits |-> 2251, places |-> 2, suffix |-> "%"]
    /\ Len(ax3) = 2

\* C3: whenever update_plots runs with commission and effort in range but a
\* selection that is none of "Linear", "Quadratic", "Logarithmic",
\* "Exponential", it shows the error dialog and leaves both readouts and the
\* three plots unchanged.
C3_UnknownSelectionRejected ==
    [][(event' \in {"initial", "update_plots"}
         /\ CommissionInRange /\ EffortInRange /\ ~Recognised)
       => (shown' = <<"Invalid sales function selected.">> /\ UNCHANGED outputs)]_vars

C3_Witness ==
    /\ event = "update_plots"
    /\ CommissionInRange /\ EffortInRange
    /\ selected_function_var = "Cubic"
    /\ shown = <<"Invalid sales function selected.">>
    /\ ax1 # <<>> /\ ax2 # <<>> /\ Len(ax3) = 2

\* values.shape == (rows, cols)
HasShape(values, rows, cols) ==
    /\ DOMAIN values = 1..rows
    /\ \A j \in 1..rows : DOMAIN values[j] = 1..cols

\* C7: after a grid evaluation, for whichever sales function was chosen,
\* both grids have len(effort_range) rows of len(commission_range) cells
\* (GridPoints of each, from the first to the last value of the span), cell
\* [j, i] of the agent grid is the agent profit percentage and cell [j, i]
\* of the company grid the company profit percentage of
\* (commission_range[i], effort_range[j]), and every cell was stored into
\* exactly once.
C7_GridCells ==
    (Triggered /\ shown = <<>>) =>
        LET commission_range == np_linspace(CommissionSpan)
            effort_range     == np_linspace(EffortSpan)
            f                == SalesFunctionNamed(selected_function_var)
        IN  /\ Len(commission_range) = GridPoints /\ Len(effort_range) = GridPoints
            /\ commission_range[1] = float(<<1, 10>>)
            /\ commission_range[GridPoints] = float(<<9, 10>>)
            /\ effort_range[1] = float(<<0, 1>>)
            /\ effort_range[GridPoints] = float(<<10, 1>>)
            /\ HasShape(ax1[1].Z, Len(effort_range), Len(commission_range))
            /\ HasShape(ax2[1].Z, Len(effort_range), Len(commission_range))
            /\ HasShape(grid_writes, Len(effort_range), Len(commission_range))
            /\ \A i \in 1..Len(commission_range), j \in 1..Len(effort_range) :
                  /\ ax1[1].Z[j][i]
                        = AgentPercentageAt(commission_range[i], effort_range[j], f)
                  /\ ax2[1].Z[j][i]
                        = CompanyPercentageAt(commission_range[i], effort_range[j], f)
                  /\ grid_writes[j][i] = 1

\* an Exponential grid: the corner of the lowest commission and highest
\* effort differs from the corner of the highest commission and lowest effort
C7_Witness ==
    /\ event = "update_plots" /\ shown = <<>>
    /\ selected_function_var = "Exponential"
    /\ grid_writes[GridPoints][1] = 1
    /\ ax1[1].Z[GridPoints][1]
          = AgentPercentageAt(float(<<1, 10>>), float(<<10, 1>>),
                              "exponential_sales_function")
    /\ ax1[1].Z[GridPoints][1] # ax1[1].Z[1][GridPoints]

\* C9: the only step create_gui takes before the event loop is one
\* update_plots run on the defaults 0.5, 5.0, "Linear"; it shows no dialog
\* and leaves the readouts "1900.75" and "25.00%" and three filled axes in
\* place of the placeholders, and no such run happens again once the event
\* loop handles triggers.
C9_InitialPlots ==
    [][/\ pc = "create_gui" =>
              /\ event = "none"
              /\ commission_var = <<5, 10>> /\ effort_var = <<5, 1>>
              /\ selected_function_var = "Linear"
              /\ agent_profit_var.places = 1 /\ company_profit_var.digits = 0
              /\ ax1 = <<>> /\ ax2 = <<>> /\ ax3 = <<>>
              /\ pc' = "mainloop" /\ event' = "initial" /\ shown' = <<>>
              /\ UNCHANGED <<commission_var, effort_var, selected_function_var>>
              /\ agent_profit_var'
                    = [neg |-> FALSE, digits |-> 190075, places |-> 2, suffix |-> ""]
              /\ company_profit_var'
                    = [neg |-> FALSE, digits |-> 2500, places |-> 2, suffix |-> "%"]
              /\ Len(ax1') = 1 /\ Len(ax2') = 1 /\ Len(ax3') = 2
       /\ pc = "mainloop" => (pc' = "mainloop" /\ event' # "initial")]_vars

\* the state in which the first user trigger can occur
C9_Witness ==
    /\ pc = "mainloop" /\ event = "initial"
    /\ agent_profit_var = [neg |-> FALSE, digits |-> 190075, places |-> 2, suffix |-> ""]
    /\ company_profit_var = [neg |-> FALSE, digits |-> 2500, places |-> 2, suffix |-> "%"]
    /\ ax1 # <<>> /\ ax2 # <<>> /\ ax3 # <<>>

\* C10: a run of update_plots shows at most one dialog, and it is the one of
\* the first failing check in the order commission range, effort range,
\* sales-function selection: with both numbers out of range only the
\* commission message, and the selection message only with both in range.
C10_OneDialogInOrder ==
    /\ Len(shown) <= 1
    /\ Triggered =>
          shown = IF ~CommissionInRange
                  THEN <<"Commission value must be between 0.1 and 0.9.">>
                  ELSE IF ~EffortInRange
                  THEN <<"Effort value must be between 0 and 10.">>
                  ELSE IF ~Recognised
                  THEN <<"Invalid sales function selected.">>
                  ELSE <<>>

\* commission 1 and effort 15 with an unknown selection: the commission message alone
C10_Witness ==
    /\ event = "update_plots"
    /\ commission_var = <<1, 1>> /\ effort_var = <<15, 1>>
    /\ selected_function_var = "Cubic"
    /\ shown = <<"Commission value must be between 0.1 and 0.9.">>

----------------------------------------------------------------------------
(* Properties of the functions of lines 8-32, on the direct calls.         *)

\* the call made was of one of the four sales functions: args are (e, c)
SalesCall == probe.function \in SalesFunctions

C5_AgentObjective ==
    probe.function = "agent_objective" =>
        LET commission   == probe.args[1][1]
            effort       == probe.args[1][2]
            s            == call(probe.args[2], <<effort, commission>>)
            agent_profit == FNeg(FSub(FMul(commission, s), effort))
            total_sales  == FMul(s, FSub(F1, s))
        IN  /\ probe.result[2] = agent_profit
            /\ ~IsZero(total_sales) =>
                  probe.result[1] = FMul(FDiv(agent_profit, total_sales), F100)
            /\ IsZero(total_sales) => probe.result[1] = FZero(0)
            /\ probe.args = <<<<Dec(1, 2), Dec(0, 1)>>, "linear_sales_function">> =>
                  /\ s = Dec(1, 4)
                  /\ probe.result[2] = FNeg(Dec(1, 8))
                  /\ Format2(probe.result[1]) = [neg |-> TRUE, cents |-> 6667]

\* agent_objective([0.5, 0], linear_sales_function) returned (-66.67, -0.125)
C5_Witness ==
    /\ probe.function = "agent_objective"
    /\ probe.args = <<<<Dec(1, 2), Dec(0, 1)>>, "linear_sales_function">>
    /\ Format2(probe.result[1]) = [neg |-> TRUE, cents |-> 6667]
    /\ probe.result[2] = FNeg(Dec(1, 8))

\* C6: for effort in [0, 10], commission in [0.1, 0.9] and each of the four
\* sales functions, company_profit is s*(1 - s)*100 rounded to 2 decimals
\* and lies in [0, 25]; company_profit(0, 0.5, linear) is 18.75.
C6_CompanyProfit ==
    (/\ probe.function = "company_profit"
     /\ FLe(Dec(0, 1), probe.args[1]) /\ FLe(probe.args[1], Dec(10, 1))
     /\ FLe(Dec(1, 10), probe.args[2]) /\ FLe(probe.args[2], Dec(9, 10))) =>
        LET s == call(probe.args[3], <<probe.args[1], probe.args[2]>>)
        IN  /\ probe.result = Round2(FMul(FMul(s, FSub(F1, s)), F100))
            /\ FLe(FZero(0), probe.result)
            /\ FLe(probe.result, FromInt(25))
            /\ probe.args = <<Dec(0, 1), Dec(1, 2), "linear_sales_function">> =>
                  probe.result = Dec(1875, 100)

\* company_profit(0, 0.5, linear_sales_function) returned 18.75
C6_Witness ==
    /\ probe.function = "company_profit"
    /\ probe.args = <<Dec(0, 1), Dec(1, 2), "linear_sales_function">>
    /\ probe.result = Dec(1875, 100)

\* C8: for every (commission, effort) that validate_input accepts and each
\* of the four sales functions, total_sales = s*(1 - s) is not zero, so
\* agent_objective takes the "else 0" branch only at points validation
\* rejects, such as commission 1.0 with effort 7 under quadratic.
C8_TotalSalesNonzero ==
    /\ (SalesCall /\ validate_input(probe.args[2], probe.args[1]).ok) =>
           ~IsZero(FMul(probe.result, FSub(F1, probe.result)))
    /\ (/\ probe.function = "quadratic_sales_function"
        /\ probe.args = <<Dec(7, 1), Dec(1, 1)>>) =>
           /\ ~validate_input(probe.args[2], probe.args[1]).ok
           /\ IsZero(FMul(probe.result, FSub(F1, probe.result)))

\* quadratic at commission 0.9 and effort 10, where s == 0.9: total_sales is not 0
C8_Witness ==
    /\ probe.function = "quadratic_sales_function"
    /\ probe.args = <<Dec(10, 1), Dec(9, 10)>>
    /\ validate_input(probe.args[2], probe.args[1]).ok
    /\ probe.result = Dec(9, 10)
    /\ ~IsZero(FMul(probe.result, FSub(F1, probe.result)))

====
